---- MODULE Spec2Model ----
(***************************************************************************)
(* The directory tree plugin of Porcupine (porcupine/plugins/              *)
(* directory_tree.py) as a state machine, and the hooks of                 *)
(* porcupine/utils.py.                                                     *)
(*                                                                         *)
(* A path is the sequence of its components below the filesystem root:     *)
(* "/p/d/g" is <<"p", "d", "g">>.  The filesystem root itself is outside   *)
(* the universe of the model (no project is "/"), and None is <<>>.        *)
(* The ttk.Treeview is modelled by its items (id -> values, tags), the     *)
(* ordered children of every item (kids, 0 being the root item '').  Tk    *)
(* never hands out an item id twice; the program only compares ids, so the *)
(* model hands out the least id that is neither in the tree, nor in the    *)
(* snapshot of a refresh cycle in flight, nor was handed out earlier in    *)
(* the same handler, and when a handler has returned the items are         *)
(* numbered anew in the order of the tree (renumber): no handler can tell  *)
(* the difference.                                                         *)
(***************************************************************************)
EXTENDS Integers, Sequences, FiniteSets, TLC

VARIABLES
    fs,            \* the paths that exist on disk
    tabs,          \* the paths of the open FileTabs (tab.path, not None)
    items,         \* Treeview items: id -> [values, tags]
    kids,          \* Treeview children: id (0 = '') -> sequence of ids
    git_statuses,  \* DirectoryTree.git_statuses: root -> (path -> status tag)
    settings,      \* the setting 'directory_tree_projects': list of str(path)
    inflight,      \* refresh cycles handed to run_in_thread, not yet called back
    last,          \* the handler that ran last, with what it saw (history)
    hook           \* a utils.ContextManagerHook and the with statements open on it

vars == <<fs, tabs, items, kids, git_statuses, settings, inflight, last, hook>>

(***************************************************************************)
(* Bounds of the model.                                                    *)
(***************************************************************************)
\* Refresh cycles in flight at once.
MaxInflight == 1
MaxCycles == 2
\* with statements nested in each other, and callbacks connected to the hook.
MaxDepth == 3
MaxCallbacks == 2

PROJECT_AUTOCLOSE_COUNT == 5

None == << >>

(***************************************************************************)
(* Paths (pathlib.Path).                                                   *)
(***************************************************************************)
Range(s) == {s[i] : i \in DOMAIN s}

\* path.parents, nearest first; "/" is left out (see the header).
parents_seq(path) == [k \in 1..(Len(path) - 1) |-> SubSeq(path, 1, Len(path) - k)]

parents(path) == Range(parents_seq(path))

\* path.name
name(path) == path[Len(path)]

\* The characters of the names used, as code points.
CharCodes(nm) ==
    CASE nm = "d" -> <<100>>
      [] nm = "e" -> <<101>>
      [] nm = "f" -> <<102>>
      [] nm = "g" -> <<103>>
      [] nm = "p" -> <<112>>
      [] nm = ".git" -> <<46, 103, 105, 116>>
      [] nm = "n1" -> <<110, 49>>
      [] nm = "n2" -> <<110, 50>>
      [] nm = "n3" -> <<110, 51>>
      [] nm = "n4" -> <<110, 52>>
      [] nm = "n5" -> <<110, 53>>
      [] nm = "n6" -> <<110, 54>>
      [] nm = "r" -> <<114>>
      [] nm = "w" -> <<119>>
      [] nm = "x" -> <<120>>
      [] nm = "y" -> <<121>>
      [] nm = "z" -> <<122>>

Names == {"d", "e", "f", "g", "p", ".git", "n1", "n2", "n3", "n4", "n5", "n6", "r", "w", "x", "y", "z"}

\* str(path): "/" and the name, for every component.
RECURSIVE str(_)
str(path) ==
    IF path = << >> THEN << >>
    ELSE str(SubSeq(path, 1, Len(path) - 1)) \o <<47>> \o CharCodes(name(path))

\* Python's < on two strings.
RECURSIVE str_lt(_, _)
str_lt(a, b) ==
    IF b = << >> THEN FALSE
    ELSE IF a = << >> THEN TRUE
    ELSE IF a[1] # b[1] THEN a[1] < b[1]
    ELSE str_lt(Tail(a), Tail(b))

(***************************************************************************)
(* The filesystem.  Whether a name is a directory or a file is fixed       *)
(* ("TODO: handle changing directory to file" is left open by the code).   *)
(***************************************************************************)
FileNames == {"f", "g", "x", "y", "z"}

is_dir(fsys, path) == path \in fsys /\ name(path) \notin FileNames

\* set(dir_path.iterdir()), for an existing directory
iterdir(fsys, dir_path) ==
    {q \in fsys : Len(q) = Len(dir_path) + 1 /\ SubSeq(q, 1, Len(dir_path)) = dir_path}

(***************************************************************************)
(* ttk.Treeview.  The program state a handler works on is threaded through *)
(* the operators as a record t: the Treeview (items, kids, used), the      *)
(* fields the handlers write (git_statuses, settings, inflight), ok (no    *)
(* exception was raised so far; a raised exception ends the handler and    *)
(* keeps what was done before it) and writes (the item(..., tags=...)      *)
(* calls issued).                                                          *)
(***************************************************************************)
raise(t) == [t EXCEPT !.ok = FALSE]

\* Treeview.get_children(item)
get_children(t, item) == t.kids[item]

\* Treeview.tag_has(tag, item)
tag_has(t, tag, item) == tag \in t.items[item].tags

\* Treeview.insert(parent, index, values=values, tags=tags), index 0 or 'end'
fresh(t) == CHOOSE id \in 1..(Cardinality(t.used) + 1) :
                /\ id \notin t.used
                /\ \A j \in 1..(id - 1) : j \in t.used

tv_insert(t, parent, atEnd, values, tags) ==
    LET id == fresh(t)
        old == t.kids[parent]
    IN [t EXCEPT !.items = (id :> [values |-> values, tags |-> tags]) @@ t.items,
                 !.kids = (id :> << >>) @@
                          [t.kids EXCEPT ![parent] = IF atEnd THEN Append(old, id)
                                                     ELSE <<id>> \o old],
                 !.used = @ \cup {id}]

RECURSIVE subtree(_, _)
subtree(k, item) == {item} \cup UNION {subtree(k, k[item][i]) : i \in DOMAIN k[item]}

\* Treeview.delete(item): the item and its descendants go
tv_delete(t, item) ==
    LET gone == subtree(t.kids, item)
    IN [t EXCEPT !.items = [i \in (DOMAIN t.items) \ gone |-> t.items[i]],
                 !.kids = [i \in (DOMAIN t.kids) \ gone |->
                              SelectSeq(t.kids[i], LAMBDA c : c # item)]]

\* Treeview.move(item, parent, index), index counted from 0
tv_move(t, item, parent, index) ==
    LET without == [i \in DOMAIN t.kids |-> SelectSeq(t.kids[i], LAMBDA c : c # item)]
        rest == without[parent]
        at == IF index > Len(rest) THEN Len(rest) ELSE index
    IN [t EXCEPT !.kids = [without EXCEPT ![parent] =
                              SubSeq(rest, 1, at) \o <<item>> \o SubSeq(rest, at + 1, Len(rest))]]

\* DirectoryTree.get_path, for an item that is no dummy
get_path(t, item_id) == t.items[item_id].values[1]

_insert_dummy(t, parent) == tv_insert(t, parent, TRUE, << >>, {"dummy"})

_contains_dummy(t, parent) ==
    LET children == get_children(t, parent)
    IN Len(children) = 1 /\ tag_has(t, "dummy", children[1])

(***************************************************************************)
(* run_git_status.  What git prints is an input: outcome.ran is FALSE when *)
(* git could not be run or returned non-zero, and outcome.stdout is the    *)
(* sequence of porcelain lines, a line being its two status columns and    *)
(* the path that follows them (line[3:], relative to the project root).    *)
(***************************************************************************)
\* a slip: the first column is looked at for 'M', and a line that is not understood
\* ends the parsing with nothing
git_status_line_first_column(result, project_root, line) ==
    LET path == project_root \o line.path
        set(status) == (path :> status) @@ result
    IN IF line.code[1] = "M" THEN set("git_modified")
       ELSE IF line.code[2] = " " THEN set("git_added")
       ELSE IF line.code = <<"?", "?">> THEN set("git_untracked")
       ELSE IF line.code = <<"!", "!">> THEN set("git_ignored")
       ELSE IF line.code \in {<<"A", "A">>, <<"U", "U">>} THEN set("git_mergeconflict")
       ELSE << >>

\* one pass of the loop over run_result.stdout.splitlines()
git_status_line(result, project_root, line) ==
    LET path == project_root \o line.path
        set(status) == (path :> status) @@ result
    IN IF line.code[2] = "M" THEN set("git_modified")
       ELSE IF line.code[2] = " " THEN set("git_added")
       ELSE IF line.code = <<"?", "?">> THEN set("git_untracked")
       ELSE IF line.code = <<"!", "!">> THEN set("git_ignored")
       ELSE IF line.code \in {<<"A", "A">>, <<"U", "U">>} THEN set("git_mergeconflict")
       ELSE result

RECURSIVE git_status_lines(_, _, _, _)
git_status_lines(result, project_root, lines, i) ==
    IF i > Len(lines) THEN result
    ELSE git_status_lines(git_status_line(result, project_root, lines[i]),
                          project_root, lines, i + 1)

run_git_status(project_root, outcome) ==
    IF ~outcome.ran THEN << >>
    ELSE git_status_lines((project_root \o <<".git">>) :> "git_ignored",
                          project_root, outcome.stdout, 1)

(***************************************************************************)
(* Projects.                                                               *)
(***************************************************************************)
\* the paths of the top-level items, in order
project_paths(t) == [i \in DOMAIN t.kids[0] |-> get_path(t, t.kids[0][i])]

\* a slip: the open tabs are not looked at
hide_condition_without_tabs(t, project_id, env) ==
    \/ ~is_dir(env.fs, get_path(t, project_id))
    \/ Len(get_children(t, 0)) > PROJECT_AUTOCLOSE_COUNT

\* a slip: the cap is reached one project too early
hide_condition_at_cap(t, project_id, env) ==
    \/ ~is_dir(env.fs, get_path(t, project_id))
    \/ /\ Len(get_children(t, 0)) >= PROJECT_AUTOCLOSE_COUNT
       /\ ~\E tab \in env.tabs : get_path(t, project_id) \in parents(tab)

\* the condition of hide_old_projects under which project_id is deleted
hide_condition(t, project_id, env) ==
    LET project_path == get_path(t, project_id)
    IN \/ ~is_dir(env.fs, project_path)
       \/ /\ Len(get_children(t, 0)) > PROJECT_AUTOCLOSE_COUNT
          /\ ~\E tab \in env.tabs : project_path \in parents(tab)

\* the loop of hide_old_projects over reversed(self.get_children(''))
RECURSIVE hide_loop(_, _, _, _)
hide_loop(t, ids, i, env) ==
    IF i < 1 THEN t
    ELSE hide_loop(IF hide_condition(t, ids[i], env) THEN tv_delete(t, ids[i]) ELSE t,
                   ids, i - 1, env)

\* a slip: the projects the run found are persisted, not those it left
set_directory_tree_projects_before(t1, before) ==
    [t1 EXCEPT !.settings = [i \in DOMAIN before |-> str(before[i])],
               !.hides = Append(@, [before |-> before, after |-> project_paths(t1)])]

\* line 183, and the history of the run: the projects it found and those it left
set_directory_tree_projects(t1, before) ==
    [t1 EXCEPT !.settings = [i \in DOMAIN t1.kids[0] |-> str(get_path(t1, t1.kids[0][i]))],
               !.hides = Append(@, [before |-> before, after |-> project_paths(t1)])]

hide_old_projects(t, env) ==
    set_directory_tree_projects(hide_loop(t, get_children(t, 0), Len(get_children(t, 0)), env),
                                project_paths(t))

\* utils.run_in_thread(thread_target, done_callback): the cycle holds paths
run_in_thread(t1) ==
    [t1 EXCEPT !.inflight =
        Append(@, [paths |-> [child_id \in Range(get_children(t1, 0)) |-> get_path(t1, child_id)],
                   overtaken |-> FALSE, rival |-> FALSE])]

refresh_everything(t, env) == run_in_thread(hide_old_projects(t, env))

\* lines 154-155
refresh_if(t3, refresh, env) == IF refresh THEN refresh_everything(t3, env) ELSE t3

\* a slip: root_path is never found among the projects
project_index_none(t, root_path) == 0

\* lines 137-142: the position of root_path among the projects, 0 if it is not one
project_index(t, root_path) ==
    IF \E i \in DOMAIN t.kids[0] : get_path(t, t.kids[0][i]) = root_path
    THEN CHOOSE i \in DOMAIN t.kids[0] :
             /\ get_path(t, t.kids[0][i]) = root_path
             /\ \A j \in 1..(i - 1) : get_path(t, t.kids[0][j]) # root_path
    ELSE 0

\* lines 151-155: root_path is not a project yet; new_id is what insert returns
add_new_project(t, new_id, root_path, refresh, env) ==
    refresh_if(hide_old_projects(_insert_dummy(tv_insert(t, 0, FALSE, <<root_path>>,
                                                         {"dir", "project"}),
                                               new_id),
                                 env),
               refresh, env)

\* a slip: the project that is there already stays where it is
move_project_nowhere(t, index) == t

\* lines 138-142: root_path is the project at position index
move_project_first(t, index) == tv_move(t, t.kids[0][index], 0, 0)

add_project(t, root_path, refresh, env) ==
    IF project_index(t, root_path) # 0
    THEN move_project_first(t, project_index(t, root_path))
    ELSE add_new_project(t, fresh(t), root_path, refresh, env)

(***************************************************************************)
(* open_and_refresh_directory.  env.ord stands for the iteration order of  *)
(* Python's sets: new_paths - path2id.keys() is walked in the order in     *)
(* which the names come in env.ord.                                        *)
(***************************************************************************)
GitTags == {"git_added", "git_modified", "git_mergeconflict", "git_untracked", "git_ignored"}

\* str.startswith
startswith(s, prefix) == Len(prefix) <= Len(s) /\ SubSeq(s, 1, Len(prefix)) = prefix

\* relevant_parents: child_path and its parents, up to the first project root
relevant_parents(child_path, project_roots) ==
    LET chain == <<child_path>> \o parents_seq(child_path)
        stop == CHOOSE k \in DOMAIN chain :
                    /\ chain[k] \in project_roots
                    /\ \A j \in 1..(k - 1) : chain[j] \notin project_roots
    IN SubSeq(chain, 1, stop)

\* a slip: every status of the files below a directory is collected
child_tags_unfiltered(git_status, child_path) ==
    {git_status[subpath] : subpath \in
        {sp \in DOMAIN git_status :
            /\ startswith(str(sp), str(child_path))
            /\ child_path \in parents(sp)}}

\* the statuses of the files below a directory (the else branch of the for loop)
child_tags(git_status, child_path) ==
    {git_status[subpath] : subpath \in
        {sp \in DOMAIN git_status :
            /\ git_status[sp] \in {"git_added", "git_modified", "git_mergeconflict"}
            /\ startswith(str(sp), str(child_path))
            /\ child_path \in parents(sp)}}

\* a slip: the entry farthest from the child wins
git_tag_of_outermost(git_status, relevant, child_path) ==
    LET hits == {k \in DOMAIN relevant : relevant[k] \in DOMAIN git_status}
    IN IF hits # {}
       THEN {git_status[relevant[CHOOSE k \in hits : \A j \in hits : k >= j]]}
       ELSE LET ct == child_tags(git_status, child_path)
            IN IF "git_mergeconflict" \in ct THEN {"git_mergeconflict"}
               ELSE IF "git_modified" \in ct THEN {"git_modified"}
               ELSE ct

\* a slip: modified is looked for before mergeconflict
git_tag_of_modified_first(git_status, relevant, child_path) ==
    LET hits == {k \in DOMAIN relevant : relevant[k] \in DOMAIN git_status}
    IN IF hits # {}
       THEN {git_status[relevant[CHOOSE k \in hits : \A j \in hits : k <= j]]}
       ELSE LET ct == child_tags(git_status, child_path)
            IN IF "git_modified" \in ct THEN {"git_modified"}
               ELSE IF "git_mergeconflict" \in ct THEN {"git_mergeconflict"}
               ELSE ct

\* the git tags added to new_tags for a child: one tag or none
git_tag_of(git_status, relevant, child_path) ==
    LET hits == {k \in DOMAIN relevant : relevant[k] \in DOMAIN git_status}
    IN IF hits # {}
       THEN {git_status[relevant[CHOOSE k \in hits : \A j \in hits : k <= j]]}
       ELSE LET ct == child_tags(git_status, child_path)
            IN IF "git_mergeconflict" \in ct THEN {"git_mergeconflict"}
               ELSE IF "git_modified" \in ct THEN {"git_modified"}
               ELSE ct

\* the position of a tag in the list _sorting_key looks it up in (0 = first)
status_rank(git_tag) ==
    CASE git_tag = "git_added" -> 0
      [] git_tag = "git_modified" -> 1
      [] git_tag = "git_mergeconflict" -> 2
      [] git_tag = "None" -> 3
      [] git_tag = "git_untracked" -> 4
      [] git_tag = "git_ignored" -> 5

\* _sorting_key of the pair (path, item_id)
_sorting_key(t, pair) ==
    LET tags == t.items[pair[2]].tags
        git_tags == tags \cap GitTags
        git_tag == IF git_tags = {} THEN "None" ELSE CHOOSE g \in git_tags : TRUE
    IN <<status_rank(git_tag), IF "dir" \in tags THEN 1 ELSE 2, str(pair[1])>>

\* Python's < on two sorting keys
key_lt(a, b) ==
    \/ a[1] < b[1]
    \/ a[1] = b[1] /\ a[2] < b[2]
    \/ a[1] = b[1] /\ a[2] = b[2] /\ str_lt(a[3], b[3])

\* a set of sibling paths as the sequence a Python loop over the set visits
RECURSIVE set_order(_, _)
set_order(paths, ord) ==
    IF paths = {} THEN << >>
    ELSE LET pos(q) == CHOOSE k \in DOMAIN ord : ord[k] = name(q)
             first == CHOOSE q \in paths : \A r \in paths : pos(q) <= pos(r)
         IN <<first>> \o set_order(paths \ {first}, ord)

\* for path in list(path2id.keys() - new_paths): self.delete(path2id.pop(path))
RECURSIVE delete_vanished(_, _, _, _)
delete_vanished(t, path2id, new_paths, i) ==
    IF i > Len(path2id) THEN t
    ELSE delete_vanished(IF path2id[i][1] \in new_paths THEN t ELSE tv_delete(t, path2id[i][2]),
                         path2id, new_paths, i + 1)

\* for path in list(new_paths - path2id.keys()): insert it, with a dummy if a directory
RECURSIVE insert_new(_, _, _, _, _)
insert_new(s, added, i, dir_id, env) ==
    IF i > Len(added) THEN s
    ELSE LET path == added[i]
             t1 == tv_insert(s.t, dir_id, TRUE, <<path>>,
                             IF is_dir(env.fs, path) THEN {"dir"} ELSE {"file"})
             t2 == IF is_dir(env.fs, path) THEN _insert_dummy(t1, fresh(s.t)) ELSE t1
         IN insert_new([t |-> t2, path2id |-> Append(s.path2id, <<path, fresh(s.t)>>)],
                       added, i + 1, dir_id, env)

\* for index, (path, child_id) in enumerate(sorted(...)): self.move(child_id, dir_id, index)
RECURSIVE move_sorted(_, _, _, _)
move_sorted(t, sorted, dir_id, i) ==
    IF i > Len(sorted) THEN t
    ELSE move_sorted(tv_move(t, sorted[i][2], dir_id, i - 1), sorted, dir_id, i + 1)

\* a slip: the tags are written whether they changed or not
tags_differ_always(old_tags, new_tags) == TRUE

\* does the new tag set get written (line 267)
tags_differ(old_tags, new_tags) == old_tags # new_tags

RECURSIVE open_and_refresh_directory(_, _, _, _)
RECURSIVE refresh_children(_, _, _, _, _)

\* lines 243-265: the tags of a child, relevant being its relevant_parents
new_tags_of(t, child_id, child_path, relevant) ==
    (t.items[child_id].tags \ GitTags)
        \cup git_tag_of(t.git_statuses[relevant[Len(relevant)]], relevant, child_path)

\* lines 267-268
set_tags(t, child_id, new_tags) ==
    IF tags_differ(t.items[child_id].tags, new_tags)
    THEN [t EXCEPT !.items[child_id].tags = new_tags, !.writes = @ + 1]
    ELSE t

\* a slip: the pass descends into every directory, placeholder or not
refresh_child_directory_always(t1, child_path, child_id, env) ==
    IF "dir" \in t1.items[child_id].tags
    THEN open_and_refresh_directory(t1, child_path, child_id, env)
    ELSE t1

\* lines 270-271
refresh_child_directory(t1, child_path, child_id, env) ==
    IF "dir" \in t1.items[child_id].tags /\ ~_contains_dummy(t1, child_id)
    THEN open_and_refresh_directory(t1, child_path, child_id, env)
    ELSE t1

\* lines 237-271 for one child
refresh_child(t, child_path, child_id, project_roots, env) ==
    IF Range(<<child_path>> \o parents_seq(child_path)) \cap project_roots = {}
    THEN raise(t)                                             \* next(): StopIteration
    ELSE IF relevant_parents(child_path, project_roots)
                [Len(relevant_parents(child_path, project_roots))] \notin DOMAIN t.git_statuses
    THEN raise(t)                                             \* KeyError
    ELSE refresh_child_directory(
             set_tags(t, child_id,
                      new_tags_of(t, child_id, child_path,
                                  relevant_parents(child_path, project_roots))),
             child_path, child_id, env)

\* the loop "for child_path, child_id in path2id.items()"
refresh_children(t, path2id, i, project_roots, env) ==
    IF ~t.ok \/ i > Len(path2id) THEN t
    ELSE refresh_children(refresh_child(t, path2id[i][1], path2id[i][2], project_roots, env),
                          path2id, i + 1, project_roots, env)

\* lines 273-276: the assert and the sort
sort_children(t3, path2id, dir_path, dir_id) ==
    IF ~t3.ok \/ dir_path = None THEN t3
    ELSE IF Range(get_children(t3, dir_id)) # {path2id[i][2] : i \in DOMAIN path2id}
    THEN raise(t3)                                               \* assert, line 274
    ELSE move_sorted(t3,
                     SortSeq(path2id,
                             LAMBDA a, b : key_lt(_sorting_key(t3, a), _sorting_key(t3, b))),
                     dir_id, 1)

\* lines 234-276, s being the tree and path2id after the insertions
refresh_and_sort(s, dir_path, dir_id, env) ==
    sort_children(refresh_children(s.t, s.path2id, 1, Range(project_paths(s.t)), env),
                  s.path2id, dir_path, dir_id)

\* a slip: every child of a listed directory is deleted and inserted anew
reconcile_anew(t1, dir_path, dir_id, path2id, new_paths, env) ==
    IF dir_path = None
    THEN refresh_and_sort([t |-> t1, path2id |-> path2id], dir_path, dir_id, env)
    ELSE refresh_and_sort(
             insert_new([t |-> delete_vanished(t1, path2id, {}, 1), path2id |-> << >>],
                        set_order(new_paths, env.ord), 1, dir_id, env),
             dir_path, dir_id, env)

\* lines 224-276, once new_paths is known
reconcile(t1, dir_path, dir_id, path2id, new_paths, env) ==
    refresh_and_sort(
        insert_new([t |-> delete_vanished(t1, path2id, new_paths, 1),
                    path2id |-> SelectSeq(path2id, LAMBDA pr : pr[1] \in new_paths)],
                   set_order(new_paths \ {path2id[i][1] : i \in DOMAIN path2id}, env.ord),
                   1, dir_id, env),
        dir_path, dir_id, env)

\* lines 214-276, path2id being known
list_directory(t1, dir_path, dir_id, path2id, env) ==
    IF dir_path # None /\ ~is_dir(env.fs, dir_path) THEN raise(t1)     \* iterdir raises
    ELSE IF dir_path # None /\ iterdir(env.fs, dir_path) = {} THEN _insert_dummy(t1, dir_id)
    ELSE reconcile(t1, dir_path, dir_id, path2id,
                   IF dir_path = None THEN {path2id[i][1] : i \in DOMAIN path2id}
                   ELSE iterdir(env.fs, dir_path),
                   env)

\* lines 213-276, children being self.get_children(dir_id)
list_children(t1, children, dir_path, dir_id, env) ==
    IF \E i \in DOMAIN children : tag_has(t1, "dummy", children[i])
    THEN raise(t1)                                      \* get_path: assert, line 305
    ELSE list_directory(t1, dir_path, dir_id,
                        [i \in DOMAIN children |-> <<get_path(t1, children[i]), children[i]>>],
                        env)

\* lines 210-211
delete_dummy(t, dir_id) ==
    IF _contains_dummy(t, dir_id) THEN tv_delete(t, get_children(t, dir_id)[1]) ELSE t

\* lines 212-276
without_dummy(t1, dir_path, dir_id, env) ==
    list_children(t1, get_children(t1, dir_id), dir_path, dir_id, env)

open_and_refresh_directory(t, dir_path, dir_id, env) ==
    without_dummy(delete_dummy(t, dir_id), dir_path, dir_id, env)

\* a slip: the result is installed though the projects changed meanwhile
done_callback_unchecked(t, paths, success, result, env) ==
    IF success
    THEN open_and_refresh_directory([t EXCEPT !.git_statuses = result, !.installed = TRUE],
                                    None, 0, env)
    ELSE t

\* done_callback(success, result) of the cycle that holds paths
done_callback(t, paths, success, result, env) ==
    IF success /\ Range(get_children(t, 0)) = DOMAIN paths
    THEN open_and_refresh_directory([t EXCEPT !.git_statuses = result, !.installed = TRUE],
                                    None, 0, env)
    ELSE t

\* thread_target, given what git prints for each path
thread_target(paths, outcomes) ==
    [path \in Range(paths) |-> run_git_status(path, outcomes[path])]

(***************************************************************************)
(* setup(): the projects persisted in the settings are added again.        *)
(***************************************************************************)
\* str.split('/') on the characters after position i
RECURSIVE split_slash(_, _, _)
split_slash(s, i, word) ==
    IF i > Len(s) THEN <<word>>
    ELSE IF s[i] = 47 THEN <<word>> \o split_slash(s, i + 1, << >>)
    ELSE split_slash(s, i + 1, Append(word, s[i]))

\* pathlib.Path(string): whether it is absolute, and its components
Path(string) ==
    LET words == SelectSeq(split_slash(string, 1, << >>), LAMBDA w : w # << >>)
    IN [is_absolute |-> string # << >> /\ string[1] = 47,
        parts |-> [i \in DOMAIN words |-> CHOOSE nm \in Names : CharCodes(nm) = words[i]]]

\* the loop of setup() over string_paths[:PROJECT_AUTOCLOSE_COUNT][::-1]
RECURSIVE setup_loop(_, _, _, _)
setup_loop(t, string_paths, i, env) ==
    IF i < 1 THEN t
    ELSE LET path == Path(string_paths[i])
         IN setup_loop(IF path.is_absolute /\ is_dir(env.fs, path.parts)
                       THEN add_project(t, path.parts, FALSE, env)
                       ELSE t,
                       string_paths, i - 1, env)

\* a slip: every saved string is looked at
setup_untruncated(t, string_paths, env) ==
    refresh_everything(setup_loop(t, string_paths, Len(string_paths), env), env)

setup(t, string_paths, env) ==
    LET first == SubSeq(string_paths, 1,
                        IF Len(string_paths) < PROJECT_AUTOCLOSE_COUNT THEN Len(string_paths)
                        ELSE PROJECT_AUTOCLOSE_COUNT)
    IN refresh_everything(setup_loop(t, first, Len(first), env), env)

(***************************************************************************)
(* The hooks of utils.py.  A hook holds _blocklevel and callbacks; stack   *)
(* holds the with statements that are open on the hook, the innermost      *)
(* last, each with the generators its run() has set up.  calls counts the  *)
(* callbacks the last step has called, and outcome tells how the last step *)
(* ended.  A connected callback is a generator function that yields once,  *)
(* or a function that raises.  run() is a generator function under         *)
(* contextlib.contextmanager: entering the with statement runs it up to    *)
(* its yield, and a generator that returns before it yields makes the      *)
(* with statement raise RuntimeError("generator didn't yield").            *)
(***************************************************************************)
CallbackKinds == {"yields", "raises"}

\* CallbackHook.__init__
CallbackHook == [_blocklevel |-> 0, callbacks |-> << >>, stack |-> << >>, calls |-> 0,
                 outcome |-> "new"]

connect(h, function) ==
    [h EXCEPT !.callbacks = Append(@, function), !.calls = 0, !.outcome = "connected"]

is_blocked(h) == h._blocklevel > 0

with_blocked == [kind |-> "blocked", generators |-> 0]
with_run(generators) == [kind |-> "run", generators |-> generators]

\* with hook.blocked(): up to the yield
blocked_enter(h) ==
    [h EXCEPT !._blocklevel = @ + 1, !.stack = Append(@, with_blocked), !.calls = 0,
              !.outcome = "body"]

\* the body of with hook.blocked() is left: the finally clause
blocked_exit(h) ==
    [h EXCEPT !._blocklevel = @ - 1, !.stack = SubSeq(@, 1, Len(@) - 1), !.calls = 0,
              !.outcome = "left"]

\* an exception leaves the with statements above depth: those of blocked() run
\* their finally clause, those of run() have no handler around their yield
unwind(h, depth, error) ==
    [h EXCEPT !._blocklevel =
                  @ - Cardinality({i \in (depth + 1)..Len(h.stack) : h.stack[i] = with_blocked}),
              !.stack = SubSeq(@, 1, depth),
              !.calls = 0,
              !.outcome = error]

\* with hook.run(): up to the yield.  Blocked, run() returns before it yields
\* and the with statement raises; the exception is caught at depth.
run_enter(h, depth) ==
    IF is_blocked(h)
    THEN unwind(h, depth, "RuntimeError")
    ELSE [h EXCEPT !.stack = Append(@, with_run(Cardinality({i \in DOMAIN h.callbacks :
                                                               h.callbacks[i] = "yields"}))),
                   !.calls = Len(h.callbacks),
                   !.outcome = "body"]

\* the body of with hook.run() is left: the generators are run to their end
run_exit(h) ==
    [h EXCEPT !.stack = SubSeq(@, 1, Len(@) - 1), !.calls = h.stack[Len(h.stack)].generators,
              !.outcome = "left"]

(***************************************************************************)
(* The handlers as actions.                                                *)
(***************************************************************************)
\* the program state a handler starts from
T == [items |-> items, kids |-> kids, git_statuses |-> git_statuses,
      settings |-> settings, inflight |-> inflight, ok |-> TRUE, writes |-> 0,
      hides |-> << >>, installed |-> FALSE,
      used |-> DOMAIN items \cup UNION {DOMAIN inflight[i].paths : i \in DOMAIN inflight}]

\* the program state after DirectoryTree.__init__, with the settings as saved
T0(saved) == [items |-> << >>, kids |-> (0 :> << >>), git_statuses |-> << >>,
              settings |-> saved, inflight |-> << >>, ok |-> TRUE, writes |-> 0,
              hides |-> << >>, installed |-> FALSE, used |-> {}]

Env(fsys, tbs, ord) == [fs |-> fsys, tabs |-> tbs, ord |-> ord]

\* the items below the items of todo, parents before children, in tree order
RECURSIVE tree_order(_, _)
tree_order(k, todo) ==
    IF todo = << >> THEN << >>
    ELSE <<todo[1]>> \o tree_order(k, k[todo[1]] \o Tail(todo))

\* a set of numbers in ascending order
RECURSIVE ascending(_)
ascending(S) ==
    IF S = {} THEN << >>
    ELSE LET least == CHOOSE x \in S : \A y \in S : x <= y
         IN <<least>> \o ascending(S \ {least})

\* the position of every id in a sequence of ids, 0 staying 0
numbering(all) ==
    [id \in Range(all) \cup {0} |-> IF id = 0 THEN 0 ELSE CHOOSE j \in DOMAIN all : all[j] = id]

\* the new number of every item id a handler leaves in the tree or in a snapshot:
\* the items of the tree first, in tree order, then the deleted ones of the snapshots
new_ids(t) ==
    numbering(tree_order(t.kids, t.kids[0])
              \o ascending(UNION {DOMAIN t.inflight[i].paths : i \in DOMAIN t.inflight}
                               \ DOMAIN t.items))

\* the id that has the number j
numbered(new, j) == CHOOSE id \in DOMAIN new : new[id] = j

renumbered(t, new) ==
    [t EXCEPT !.items = [j \in {new[id] : id \in DOMAIN t.items} |-> t.items[numbered(new, j)]],
              !.kids = [j \in {new[id] : id \in DOMAIN t.kids} |->
                           [c \in DOMAIN t.kids[numbered(new, j)] |->
                               new[t.kids[numbered(new, j)][c]]]],
              !.inflight = [i \in DOMAIN t.inflight |->
                               [t.inflight[i] EXCEPT
                                    !.paths = [j \in {new[id] : id \in DOMAIN t.inflight[i].paths}
                                                  |-> t.inflight[i].paths[numbered(new, j)]]]]]

renumber(t) == renumbered(t, new_ids(t))

\* the program state r is the next state; the plugin runs no hook
Becomes(r) ==
    /\ UNCHANGED hook
    /\ items' = r.items
    /\ kids' = r.kids
    /\ git_statuses' = r.git_statuses
    /\ settings' = r.settings
    /\ inflight' = r.inflight

\* the program state r is the state, and the hook is a new one
Is(r) ==
    /\ hook = CallbackHook
    /\ items = r.items
    /\ kids = r.kids
    /\ git_statuses = r.git_statuses
    /\ settings = r.settings
    /\ inflight = r.inflight

\* the state a handler leaves
Commit(t) == Becomes(renumber(t))

\* the same for the initial state
Start(t) == Is(renumber(t))

Other(op) == [op |-> op, id |-> 0, ok |-> TRUE, writes |-> 0, again |-> FALSE,
              hides |-> << >>, success |-> FALSE, snapshot |-> {}, path |-> None,
              installed |-> FALSE, overtaken |-> FALSE, rival |-> FALSE, created |-> {}]

\* history: the items a handler has inserted, under the numbers they have in the
\* state it leaves
created(t) == {new_ids(t)[id] : id \in DOMAIN t.items \ DOMAIN items}

\* utils.find_project_root(tab.path): a directory above the file
find_project_root(path) == {root \in parents(path) : is_dir(fs, root)}

\* a handler has returned, or raised: the state it leaves, and what it saw
Returns(t, op, id, again, success, snapshot) ==
    /\ Commit(t)
    /\ last' = [op |-> op, id |-> new_ids(t)[id], ok |-> t.ok, writes |-> t.writes,
                again |-> again, hides |-> t.hides, success |-> success,
                snapshot |-> snapshot, path |-> None,
                installed |-> t.installed, overtaken |-> FALSE, rival |-> FALSE,
                created |-> created(t)]

\* add_project(root_path) has returned
AddProjectReturns(t, root_path) ==
    /\ Commit(t)
    /\ last' = [Other("on_new_tab") EXCEPT !.ok = t.ok, !.writes = t.writes,
                                           !.hides = t.hides, !.path = root_path,
                                           !.created = created(t)]

\* on_new_tab for a FileTab with a path: path_callback().  The tab manager (not in
\* the sources at hand) lists the new tab when it calls on_new_tab, and does not
\* list a tab any more when the tab gets <Destroy>.
on_new_tab(path, roots) ==
    \E root \in find_project_root(path) \cap roots :
        /\ tabs' = tabs \cup {path}
        /\ AddProjectReturns(add_project(T, root, TRUE, Env(fs, tabs \cup {path}, << >>)), root)
        /\ UNCHANGED fs

\* <Destroy> of a FileTab: tree.hide_old_projects
tab_destroy(path) ==
    /\ path \in tabs
    /\ tabs' = tabs \ {path}
    /\ Returns(hide_old_projects(T, Env(fs, tabs \ {path}, << >>)),
               "hide_old_projects", 0, FALSE, FALSE, {})
    /\ UNCHANGED fs

\* <FocusIn>, <<Save>>: tree.refresh_everything
focus_in ==
    /\ Returns(refresh_everything(T, Env(fs, tabs, << >>)),
               "refresh_everything", 0, FALSE, FALSE, {})
    /\ UNCHANGED <<fs, tabs>>

\* T without the cycle at position i
without_cycle(i) ==
    [T EXCEPT !.inflight = SubSeq(inflight, 1, i - 1) \o SubSeq(inflight, i + 1, Len(inflight))]

\* history: when the cycle that was at position i has installed its results, the
\* cycles started before it are overtaken, and the cycles in flight that hold
\* other project paths have a rival that was installed
marked(t, i, snapshot) ==
    IF ~t.installed THEN t
    ELSE [t EXCEPT !.inflight =
             [j \in DOMAIN t.inflight |->
                 [t.inflight[j] EXCEPT !.overtaken = @ \/ j < i,
                                       !.rival = @ \/ Range(t.inflight[j].paths) # snapshot]]]

\* done_callback of the cycle at position i has returned
CycleReturns(t, i, success, snapshot) ==
    /\ Commit(marked(t, i, snapshot))
    /\ last' = [Other("done_callback") EXCEPT !.ok = t.ok, !.writes = t.writes,
                                              !.hides = t.hides, !.success = success,
                                              !.snapshot = snapshot,
                                              !.installed = t.installed,
                                              !.overtaken = inflight[i].overtaken,
                                              !.rival = inflight[i].rival,
                                              !.created = created(t)]

\* run_in_thread calls done_callback of the cycle at position i
cycle_done(i, success, outcomes, ord) ==
    /\ CycleReturns(done_callback(without_cycle(i), inflight[i].paths, success,
                                  thread_target(inflight[i].paths, outcomes),
                                  Env(fs, tabs, ord)),
                    i, success, Range(inflight[i].paths))
    /\ UNCHANGED <<fs, tabs>>

\* open_file_or_dir with selected_id selected, a directory
open_dir(selected_id, ord) ==
    /\ tag_has(T, "dir", selected_id)
    /\ Returns(open_and_refresh_directory(T, get_path(T, selected_id), selected_id,
                                          Env(fs, tabs, ord)),
               "open_dir", selected_id, last.op = "open_dir" /\ last.id = selected_id,
               FALSE, {})
    /\ UNCHANGED <<fs, tabs>>

\* open_file_or_dir with selected_id selected, a file: the new tab is announced
open_file(selected_id, roots) ==
    /\ tag_has(T, "file", selected_id)
    /\ on_new_tab(get_path(T, selected_id), roots)

\* somebody creates path on disk
fs_create(path) ==
    /\ path \notin fs
    /\ Len(path) > 1 => is_dir(fs, SubSeq(path, 1, Len(path) - 1))
    /\ fs' = fs \cup {path}
    /\ last' = Other("fs")
    /\ UNCHANGED <<tabs, items, kids, git_statuses, settings, inflight, hook>>

\* somebody removes path from disk, with all that is in it
fs_remove(path) ==
    /\ path \in fs
    /\ fs' = {q \in fs : q # path /\ path \notin parents(q)}
    /\ last' = Other("fs")
    /\ UNCHANGED <<tabs, items, kids, git_statuses, settings, inflight, hook>>

\* a porcelain line: the two status columns and the path after them
Line(x, y, path) == [code |-> <<x, y>>, path |-> path]

NotARepo == [ran |-> FALSE, stdout |-> << >>]
Printed(lines) == [ran |-> TRUE, stdout |-> lines]

\* what git prints in every project of a cycle, each taken from outcomes_of(root)
Outcomes(paths, outcomes_of) ==
    {o \in [Range(paths) -> UNION {outcomes_of[r] : r \in Range(paths)}] :
        \A r \in Range(paths) : o[r] \in outcomes_of[r]}

(***************************************************************************)
(* The main specification: the project /p with the entries /p/d, /p/f and  *)
(* /p/d/g, which come and go on disk.  /p was saved as a project by an     *)
(* earlier run; the initial state is the one setup() leaves.               *)
(***************************************************************************)
P == <<"p">>
D == <<"p", "d">>
E == <<"p", "e">>
F == <<"p", "f">>
G == <<"p", "d", "g">>

MainEntries == {D, F, G}
MainOrders == {<<"d", "f", "g">>, <<"f", "d", "g">>}

MainOutcomes(root) ==
    {NotARepo,
     Printed(<<Line("A", " ", <<"d", "g">>), Line("!", "!", <<"f">>)>>),
     Printed(<<Line(" ", "M", <<"f">>)>>)}

Init ==
    /\ fs = {P}
    /\ tabs = {}
    /\ Start(setup(T0(<<str(P)>>), <<str(P)>>, Env({P}, {}, << >>)))
    /\ last = Other("setup")

FocusIn == Len(inflight) < MaxInflight /\ focus_in

CycleDone ==
    \E i \in DOMAIN inflight, success \in BOOLEAN, ord \in MainOrders :
        \E outcomes \in Outcomes(inflight[i].paths,
                                  [r \in Range(inflight[i].paths) |-> MainOutcomes(r)]) :
            cycle_done(i, success, outcomes, ord)

OpenDir == \E selected_id \in DOMAIN items, ord \in MainOrders : open_dir(selected_id, ord)

FsCreate == \E path \in MainEntries : fs_create(path)

FsRemove == \E path \in MainEntries : fs_remove(path)

Next ==
    \/ FocusIn
    \/ CycleDone
    \/ OpenDir
    \/ FsCreate
    \/ FsRemove

Spec == Init /\ [][Next]_vars

(***************************************************************************)
(* The eviction specification.  The directories /n1, /n1/n2, ... down to   *)
(* /n1/n2/n3/n4/n5 were saved as projects by an earlier run, the deepest   *)
(* as the most recently used; the initial state is the one setup() leaves. *)
(* Three files are opened and closed in the editor: x in the project N6    *)
(* below N5, z in the project W below N1, and y in the project /r.  W and  *)
(* /r may vanish from the disk.  The user is slow: a refresh cycle is      *)
(* called back before the next event (the main specification covers the    *)
(* rest), and no project is a git repository.                              *)
(***************************************************************************)
N1 == <<"n1">>
N2 == N1 \o <<"n2">>
N3 == N2 \o <<"n3">>
N4 == N3 \o <<"n4">>
N5 == N4 \o <<"n5">>
N6 == N5 \o <<"n6">>
W == N1 \o <<"w">>
R == <<"r">>
X == N6 \o <<"x">>
Y == R \o <<"y">>
Z == W \o <<"z">>

EvictDirs == {N1, N2, N3, N4, N5, N6, W, R}
EvictSaved == <<str(N5), str(N4), str(N3), str(N2), str(N1)>>
EvictFiles == {X, Y, Z}

\* the directory find_project_root finds for a file: the one it is in
RootOf(file) == SubSeq(file, 1, Len(file) - 1)

EvictOutcomes(root) == {NotARepo}

InitEvict ==
    /\ fs = EvictDirs
    /\ tabs = {}
    /\ Start(setup(T0(EvictSaved), EvictSaved, Env(EvictDirs, {}, << >>)))
    /\ last = Other("setup")

\* a file is opened in a new tab
EvictNewTab ==
    \E file \in EvictFiles :
        /\ inflight = << >>
        /\ file \notin tabs
        /\ on_new_tab(file, {RootOf(file)})

\* a tab is closed
EvictTabDestroy == \E file \in EvictFiles : inflight = << >> /\ tab_destroy(file)

EvictCycleDone ==
    \E i \in DOMAIN inflight :
        \E outcomes \in Outcomes(inflight[i].paths,
                                  [r \in Range(inflight[i].paths) |-> EvictOutcomes(r)]) :
            cycle_done(i, TRUE, outcomes, << >>)

EvictFsRemove == \E path \in {W, R} : inflight = << >> /\ fs_remove(path)

EvictFocusIn == inflight = << >> /\ focus_in

NextEvict ==
    \/ EvictNewTab
    \/ EvictTabDestroy
    \/ EvictCycleDone
    \/ EvictFsRemove
    \/ EvictFocusIn

SpecEvict == InitEvict /\ [][NextEvict]_vars

(***************************************************************************)
(* The refresh specification: refresh cycles against projects that come    *)
(* and go.  /p was saved as a project by an earlier run; the file /p/f and *)
(* the file /r/y of the project /r are opened and closed in the editor,    *)
(* and /r vanishes from the disk and comes back.  Up to MaxCycles refresh  *)
(* cycles are in flight, called back in any order.                         *)
(***************************************************************************)
RefreshFiles == {F, Y}

RefreshOutcomes(root) == {NotARepo, Printed(<<Line(" ", "M", <<"f">>)>>)}

InitRefresh ==
    /\ fs = {P, R}
    /\ tabs = {}
    /\ Start(setup(T0(<<str(P)>>), <<str(P)>>, Env({P, R}, {}, << >>)))
    /\ last = Other("setup")

RefreshNewTab ==
    \E file \in RefreshFiles :
        /\ Len(inflight) < MaxCycles
        /\ file \notin tabs
        /\ on_new_tab(file, {RootOf(file)})

RefreshTabDestroy == \E file \in RefreshFiles : tab_destroy(file)

RefreshFocusIn == Len(inflight) < MaxCycles /\ focus_in

RefreshCycleDone ==
    \E i \in DOMAIN inflight, success \in BOOLEAN :
        \E outcomes \in Outcomes(inflight[i].paths,
                                  [r \in Range(inflight[i].paths) |-> RefreshOutcomes(r)]) :
            cycle_done(i, success, outcomes, << >>)

RefreshFsRemove == fs_remove(R)

RefreshFsCreate == fs_create(R)

NextRefresh ==
    \/ RefreshNewTab
    \/ RefreshTabDestroy
    \/ RefreshFocusIn
    \/ RefreshCycleDone
    \/ RefreshFsRemove
    \/ RefreshFsCreate

SpecRefresh == InitRefresh /\ [][NextRefresh]_vars

(***************************************************************************)
(* The tags specification: what git prints against a disk that stays as it *)
(* is.  /p holds the directories d and e and the file f, d holds g, e      *)
(* holds x; /p and /p/e both were saved as projects by an earlier run, so  *)
(* e is a project nested in /p.  git prints one of TagsOutcomes in each    *)
(* project, also about paths that are not on disk.                         *)
(***************************************************************************)
EX == E \o <<"x">>

TagsFs == {P, D, E, F, G, EX}
TagsSaved == <<str(P), str(E)>>
TagsOrders == {<<"d", "e", "f", "g", "x">>, <<"f", "e", "d", "g", "x">>}

TagsOutcomes(root) ==
    IF root = P
    THEN {NotARepo,
          Printed(<<Line("A", " ", <<"d", "g">>), Line("!", "!", <<"f">>)>>),
          Printed(<<Line(" ", "M", <<"d", "g">>), Line("?", "?", <<"d", "x">>)>>),
          Printed(<<Line("U", "U", <<"d", "g">>), Line("M", "M", <<"d", "x">>)>>),
          Printed(<<Line("?", "?", <<"d", "g">>), Line("?", "?", <<"d", "x">>)>>),
          Printed(<<Line("?", "?", <<"d", "g">>), Line("!", "!", <<"d", "x">>)>>),
          Printed(<<Line("?", "?", <<"d">>), Line(" ", "M", <<"d", "g">>),
                    Line("!", "!", <<"e", "x">>)>>),
          Printed(<<Line("!", "!", <<"d">>), Line("!", "!", <<"e", "x">>)>>),
          Printed(<<Line("A", " ", <<"d", "g">>), Line("A", "A", <<"d", "x">>),
                    Line("?", "?", <<"f">>)>>)}
    ELSE {NotARepo, Printed(<<Line(" ", "M", <<"x">>)>>)}

InitTags ==
    /\ fs = TagsFs
    /\ tabs = {}
    /\ Start(setup(T0(TagsSaved), TagsSaved, Env(TagsFs, {}, << >>)))
    /\ last = Other("setup")

TagsFocusIn == Len(inflight) < MaxInflight /\ focus_in

\* nothing new is on disk when a cycle is called back: the order does not matter
TagsCycleDone ==
    \E i \in DOMAIN inflight, success \in BOOLEAN :
        \E outcomes \in Outcomes(inflight[i].paths,
                                  [r \in Range(inflight[i].paths) |-> TagsOutcomes(r)]) :
            cycle_done(i, success, outcomes, <<"d", "e", "f", "g", "x">>)

TagsOpenDir == \E selected_id \in DOMAIN items, ord \in TagsOrders : open_dir(selected_id, ord)

NextTags ==
    \/ TagsFocusIn
    \/ TagsCycleDone
    \/ TagsOpenDir

SpecTags == InitTags /\ [][NextTags]_vars

(***************************************************************************)
(* The restore specification: the program starts with any of RestoreLists  *)
(* in the settings and runs setup().  On disk are the directories /p, /p/e *)
(* and /r and the files /p/f and /p/e/x; the saved strings name them, a    *)
(* directory that is gone (/p/d) and a relative path (p).  After setup()   *)
(* the files /p/f and /p/e/x are opened and closed in the editor and       *)
(* directories are expanded; /r may vanish from the disk, and no project    *)
(* is a git repository.                                                    *)
(***************************************************************************)
RestoreFs == {P, E, F, EX, R}
RestoreFiles == {F, EX}
RestoreOrders == {<<"e", "f", "x">>, <<"f", "e", "x">>}

RestoreStrings == {str(P), str(E), str(R), str(F), str(D), Tail(str(P))}

\* every list of at most two strings, and lists of more than
\* PROJECT_AUTOCLOSE_COUNT strings
RestoreLists ==
    {<< >>} \cup {<<a>> : a \in RestoreStrings}
    \cup {<<a, b>> : a \in RestoreStrings, b \in RestoreStrings}
    \cup {<<str(P), str(P), str(E), str(P), str(D), str(R)>>,
          <<str(D), Tail(str(P)), str(F), str(D), str(D), str(R), str(P)>>,
          <<str(E), str(D), str(R), str(E), str(F), str(P)>>,
          <<str(R), str(E), str(P), str(R), str(E), str(P)>>}

RestoreOutcomes(root) == {NotARepo}

\* the state DirectoryTree.__init__ leaves, before setup() goes through the settings
InitRestore ==
    /\ fs = RestoreFs
    /\ tabs = {}
    /\ \E saved \in RestoreLists : Is(T0(saved))
    /\ last = Other("init")

\* setup() has returned: the state it leaves, and the strings it found saved
SetupReturns(t, saved) ==
    /\ Commit(t)
    /\ last' = [op |-> "setup", id |-> 0, ok |-> t.ok, writes |-> t.writes, again |-> FALSE,
                hides |-> t.hides, success |-> FALSE, snapshot |-> {}, path |-> None,
                installed |-> FALSE, overtaken |-> FALSE, rival |-> FALSE,
                created |-> created(t), saved |-> saved]

RestoreSetup ==
    /\ last.op = "init"
    /\ SetupReturns(setup(T, settings, Env(fs, tabs, << >>)), settings)
    /\ UNCHANGED <<fs, tabs>>

RestoreNewTab ==
    \E file \in RestoreFiles :
        /\ last.op # "init"
        /\ Len(inflight) < MaxInflight
        /\ file \notin tabs
        /\ on_new_tab(file, {RootOf(file)})

RestoreTabDestroy == \E file \in RestoreFiles : last.op # "init" /\ tab_destroy(file)

RestoreCycleDone ==
    \E i \in DOMAIN inflight :
        \E outcomes \in Outcomes(inflight[i].paths,
                                  [r \in Range(inflight[i].paths) |-> RestoreOutcomes(r)]) :
            cycle_done(i, TRUE, outcomes, <<"e", "f", "x">>)

RestoreOpenDir ==
    \E selected_id \in DOMAIN items, ord \in RestoreOrders : open_dir(selected_id, ord)

\* /r vanishes from the disk
RestoreFsRemove == fs_remove(R)

NextRestore ==
    \/ RestoreSetup
    \/ RestoreFsRemove
    \/ RestoreNewTab
    \/ RestoreTabDestroy
    \/ RestoreCycleDone
    \/ RestoreOpenDir

SpecRestore == InitRestore /\ [][NextRestore]_vars

(***************************************************************************)
(* The probe specification: run_git_status on its own.  git is run in /p   *)
(* or in /p/e and fails, or prints up to two lines; the first line has any *)
(* two status columns (git never prints two blanks) and names the file f   *)
(* or .git itself, the second is one of ProbeSecondLines.  The initial     *)
(* state holds what git does, the one step is the call of run_git_status.  *)
(***************************************************************************)
ProbeColumns == {" ", "M", "A", "D", "U", "?", "!"}
ProbePaths == {<<"f">>, <<".git">>}

ProbeLines ==
    {Line(x, y, path) : x \in ProbeColumns, y \in ProbeColumns, path \in ProbePaths}
        \ {Line(" ", " ", path) : path \in ProbePaths}

ProbeSecondLines ==
    {Line(" ", "M", <<"f">>), Line("?", "?", <<"f">>), Line("D", "D", <<"f">>),
     Line("A", " ", <<"g">>), Line("!", "!", <<".git">>)}

ProbeOutcomes ==
    {NotARepo, Printed(<< >>)}
    \cup {Printed(<<line>>) : line \in ProbeLines}
    \cup {Printed(<<line, second>>) : line \in ProbeLines, second \in ProbeSecondLines}

InitProbe ==
    /\ fs = {P, E}
    /\ tabs = {}
    /\ Is(T0(<< >>))
    /\ \E project_root \in {P, E}, outcome \in ProbeOutcomes :
           last = [op |-> "git", project_root |-> project_root, outcome |-> outcome]

\* thread_target calls run_git_status(path) for a project
Probe ==
    /\ last.op = "git"
    /\ last' = [op |-> "run_git_status", project_root |-> last.project_root,
                outcome |-> last.outcome,
                result |-> run_git_status(last.project_root, last.outcome)]
    /\ UNCHANGED <<fs, tabs, items, kids, git_statuses, settings, inflight, hook>>

NextProbe == Probe

SpecProbe == InitProbe /\ [][NextProbe]_vars

(***************************************************************************)
(* The hook specification: callbacks are connected to a ContextManagerHook *)
(* and with hook.blocked() and with hook.run() are nested in each other,   *)
(* up to MaxDepth deep.  The directory tree is left alone.                 *)
(***************************************************************************)
InitHook ==
    /\ fs = {}
    /\ tabs = {}
    /\ Is(T0(<< >>))
    /\ last = Other("init")

HookStep(h) ==
    /\ hook' = h
    /\ UNCHANGED <<fs, tabs, items, kids, git_statuses, settings, inflight, last>>

HookConnect ==
    \E function \in CallbackKinds :
        /\ Len(hook.callbacks) < MaxCallbacks
        /\ HookStep(connect(hook, function))

HookEnterBlocked == Len(hook.stack) < MaxDepth /\ HookStep(blocked_enter(hook))

HookExitBlocked ==
    /\ hook.stack # << >>
    /\ hook.stack[Len(hook.stack)].kind = "blocked"
    /\ HookStep(blocked_exit(hook))

HookEnterRun ==
    \E depth \in 0..Len(hook.stack) :
        /\ Len(hook.stack) < MaxDepth
        /\ HookStep(run_enter(hook, depth))

HookExitRun ==
    /\ hook.stack # << >>
    /\ hook.stack[Len(hook.stack)].kind = "run"
    /\ HookStep(run_exit(hook))

NextHook ==
    \/ HookConnect
    \/ HookEnterBlocked
    \/ HookExitBlocked
    \/ HookEnterRun
    \/ HookExitRun

SpecHook == InitHook /\ [][NextHook]_vars

(***************************************************************************)
(* What the claims speak of.                                               *)
(***************************************************************************)
\* the children of an item that are no dummies, in order
real_children(item) == SelectSeq(kids[item], LAMBDA c : "dummy" \notin items[c].tags)

\* the paths of the children of an item
child_paths(item) == {items[c].values[1] : c \in Range(real_children(item))}

\* the tree below an item as the user sees it: values, tags and order, without the ids
RECURSIVE shown(_, _, _)
shown(its, k, item) ==
    [c \in DOMAIN k[item] |->
        <<its[k[item][c]].values, its[k[item][c]].tags, shown(its, k, k[item][c])>>]

\* C1: no directory item holds a dummy child together with other children:
\* its children are one dummy, or no dummy at all.
C1_DummyIsAlone ==
    \A item \in DOMAIN kids :
        (\E c \in Range(kids[item]) : "dummy" \in items[c].tags) => Len(kids[item]) = 1

\* C9: when open_and_refresh_directory(dir_path, dir_id) has returned, the paths
\* of the children of dir_id are the entries of dir_path on disk.
C9_ChildrenAreTheListing ==
    (last.op = "open_dir" /\ last.ok) =>
        child_paths(last.id) = iterdir(fs, items[last.id].values[1])

\* C10: a second open_and_refresh_directory on the same directory, right after the
\* first and with nothing changed in between, leaves the tree as the first left it
\* (children, tags, order) and writes no tags.
C10_SecondCallChangesNothing ==
    [][(last'.op = "open_dir" /\ last'.again) =>
            /\ shown(items', kids', 0) = shown(items, kids, 0)
            /\ last'.writes = 0]_vars

\* C10 happens: a directory with two tagged children was reconciled twice
C10_Witness ==
    /\ last.op = "open_dir" /\ last.again /\ last.ok
    /\ Len(real_children(last.id)) = 2
    /\ \E c \in Range(kids[last.id]) : items[c].tags \cap GitTags # {}

\* a FileTab is open on a file below project_path
has_document(project_path) == \E tab \in tabs : project_path \in parents(tab)

\* the projects a run of hide_old_projects removed
removed(run) == Range(run.before) \ Range(run.after)

\* the position of a project in the order a run found (1 = most recently used)
position(run, project_path) == CHOOSE k \in DOMAIN run.before : run.before[k] = project_path

\* C3 as stated: hide_old_projects never removes a tracked project that has an
\* open file tab whose path lies under it, whatever its position and however
\* many projects are tracked.
C3_DocumentProtects ==
    \A i \in DOMAIN last.hides :
        \A project_path \in removed(last.hides[i]) : ~has_document(project_path)

\* C3, amended: hide_old_projects never removes a tracked project whose path is
\* still a directory and that has an open file tab whose path lies under it,
\* whatever its position and however many projects are tracked.
C3_DocumentProtectsDirectories ==
    \A i \in DOMAIN last.hides :
        \A project_path \in removed(last.hides[i]) :
            is_dir(fs, project_path) => ~has_document(project_path)

\* hide_old_projects ran over more than 5 projects, all directories, the least
\* recently used of them with a document, some with none, and removed one
C3_Witness ==
    \E i \in DOMAIN last.hides :
        LET run == last.hides[i]
        IN /\ Len(run.before) > PROJECT_AUTOCLOSE_COUNT
           /\ \A k \in DOMAIN run.before : is_dir(fs, run.before[k])
           /\ has_document(run.before[Len(run.before)])
           /\ run.before[Len(run.before)] \in Range(run.after)
           /\ removed(run) # {}

\* what C4 says of one run of hide_old_projects over more than 5 projects
cap_enforced(run) ==
    \* only projects with no document are removed, and not more than needed
    /\ \A project_path \in removed(run) : ~has_document(project_path)
    /\ Len(run.after) >= PROJECT_AUTOCLOSE_COUNT
    \* afterwards the count is at most 5 or every project has a document
    /\ \/ Len(run.after) <= PROJECT_AUTOCLOSE_COUNT
       \/ \A k \in DOMAIN run.after : has_document(run.after[k])
    \* no document-less project stays behind a removed one
    /\ \A gone \in removed(run) : \A k \in DOMAIN run.after :
           position(run, run.after[k]) > position(run, gone) => has_document(run.after[k])
    \* the order of the others is kept
    /\ run.after = SelectSeq(run.before, LAMBDA project_path : project_path \notin removed(run))
    \* 6 projects, the last one without a document: exactly that one goes
    /\ (Len(run.before) = PROJECT_AUTOCLOSE_COUNT + 1 /\ ~has_document(run.before[Len(run.before)]))
           => run.after = SubSeq(run.before, 1, PROJECT_AUTOCLOSE_COUNT)

\* C4 as stated: run with more than 5 tracked projects, hide_old_projects removes
\* document-less projects from the least recently used end and stops as soon as
\* the count is 5: afterwards the count is at most 5 or every remaining project
\* has a document, no document-less project remains at a less recent position
\* than a removed one, and with 6 projects and a document-less last project
\* exactly that project is removed.
C4_CapEnforced ==
    \A i \in DOMAIN last.hides :
        Len(last.hides[i].before) > PROJECT_AUTOCLOSE_COUNT => cap_enforced(last.hides[i])

\* C4, amended: the same, when hide_old_projects runs with more than 5 tracked
\* projects whose paths all are directories.
C4_CapEnforcedOnDirectories ==
    \A i \in DOMAIN last.hides :
        LET run == last.hides[i]
        IN (/\ Len(run.before) > PROJECT_AUTOCLOSE_COUNT
            /\ \A k \in DOMAIN run.before : is_dir(fs, run.before[k]))
               => cap_enforced(run)

\* hide_old_projects ran over 7 projects, all directories, and removed the two
\* least recently used ones, leaving document-less projects before them
C4_Witness ==
    \E i \in DOMAIN last.hides :
        LET run == last.hides[i]
        IN /\ Len(run.before) = PROJECT_AUTOCLOSE_COUNT + 2
           /\ \A k \in DOMAIN run.before : is_dir(fs, run.before[k])
           /\ run.after = SubSeq(run.before, 1, PROJECT_AUTOCLOSE_COUNT)
           /\ \E k \in DOMAIN run.after : ~has_document(run.after[k])

\* C2: if the set of tracked projects at the moment a cycle's done_callback runs
\* differs from the snapshot taken when refresh_everything dispatched the cycle,
\* the callback changes nothing: git_statuses, the tags, children and order of
\* every node are the same after it as before it.
C2_StaleCycleChangesNothing ==
    [][(last'.op = "done_callback" /\ last'.snapshot # Range(project_paths(T)))
          => UNCHANGED <<git_statuses, items, kids>>]_vars

\* a successful cycle was called back after a project of its snapshot had been
\* removed, git statuses of an earlier cycle being installed
C2_Witness ==
    /\ last.op = "done_callback"
    /\ last.success
    /\ last.snapshot # Range(project_paths(T))
    /\ last.snapshot \ Range(project_paths(T)) # {}
    /\ git_statuses # << >>

\* the children the last handler, a finished open_and_refresh_directory with a
\* path, has looked at
processed == IF last.op = "open_dir" /\ last.ok /\ iterdir(fs, items[last.id].values[1]) # {}
             THEN Range(real_children(last.id))
             ELSE {}

\* the tracked project roots
roots == {items[c].values[1] : c \in Range(kids[0])}

\* the tracked project roots at or above a path
enclosing(path) == {root \in roots : root = path \/ root \in parents(path)}

\* the innermost of them
nearest_root(path) ==
    CHOOSE root \in enclosing(path) : \A other \in enclosing(path) : Len(other) <= Len(root)

\* child, parent, ..., nearest enclosing project root
chain(path) == [k \in 1..(Len(path) - Len(nearest_root(path)) + 1) |->
                   SubSeq(path, 1, Len(path) - k + 1)]

\* the StatusMap of the nearest enclosing project root
StatusMap(path) == git_statuses[nearest_root(path)]

\* the positions of the chain that have an entry in the StatusMap
entries(path) == {k \in DOMAIN chain(path) : chain(path)[k] \in DOMAIN StatusMap(path)}

\* the status tags of an item
status_of(item) == items[item].tags \cap GitTags

\* the statuses the StatusMap holds for what is below a path
descendant_statuses(path) ==
    {StatusMap(path)[sub] : sub \in {sp \in DOMAIN StatusMap(path) : path \in parents(sp)}}

\* the directories among the processed children that have no entry on their chain
aggregated == {c \in processed : "dir" \in items[c].tags /\ entries(items[c].values[1]) = {}}

\* C5: a processed child carries the status of the first path of its chain (child,
\* parent, ..., nearest enclosing project root) that has an entry in the StatusMap
\* of that root: the child's own entry wins over an ancestor's and over what is
\* below the child, and of nested roots the innermost one's StatusMap is used.
C5_NearestEntryWins ==
    \A c \in processed :
        LET path == items[c].values[1]
        IN entries(path) # {} =>
               \E k \in entries(path) :
                   /\ \A j \in entries(path) : k <= j
                   /\ status_of(c) = {StatusMap(path)[chain(path)[k]]}

\* a child below the nested project e carries the status e's StatusMap has for it,
\* another than the one that /p's StatusMap has for it, and a directory carries
\* the status of its own entry though the StatusMap has another one below it
C5_Witness ==
    /\ \E c \in processed :
           LET path == items[c].values[1]
           IN /\ nearest_root(path) = E
              /\ path \in DOMAIN git_statuses[E]
              /\ path \in DOMAIN git_statuses[P]
              /\ git_statuses[P][path] # git_statuses[E][path]
              /\ status_of(c) = {git_statuses[E][path]}
    /\ \E c \in DOMAIN items :
           /\ "dir" \in items[c].tags
           /\ "project" \notin items[c].tags
           /\ items[c].values[1] \in DOMAIN StatusMap(items[c].values[1])
           /\ descendant_statuses(items[c].values[1]) \ status_of(c) # {}

\* C6 as stated: a directory with no entry on its chain adopts the status of what
\* is below it when exactly one distinct status is present there (two Untracked
\* give Untracked), and has no status tag when several are present and none is
\* MergeConflict or Modified (Untracked with Ignored).
C6_SingleStatusAdopted ==
    \A c \in aggregated :
        LET below == descendant_statuses(items[c].values[1])
        IN below \cap {"git_mergeconflict", "git_modified"} = {} =>
               status_of(c) = IF Cardinality(below) = 1 THEN below ELSE {}

\* C6, amended: a directory with no entry on its chain and with nothing that is
\* MergeConflict or Modified below it adopts Added when something below it is
\* Added, and has no status tag otherwise: what is Untracked or Ignored below it
\* does not count (two Untracked give no tag, Untracked with Ignored gives none).
C6_OnlyAddedAdopted ==
    \A c \in aggregated :
        LET below == descendant_statuses(items[c].values[1])
        IN below \cap {"git_mergeconflict", "git_modified"} = {} =>
               status_of(c) = below \cap {"git_added"}

\* a directory with two Untracked paths below it, and nothing else, was processed
C6_Witness ==
    \E c \in aggregated :
        LET path == items[c].values[1]
        IN /\ descendant_statuses(path) = {"git_untracked"}
           /\ Cardinality({sp \in DOMAIN StatusMap(path) : path \in parents(sp)}) = 2
           /\ status_of(c) = {}

\* C7: a directory with no entry on its chain is MergeConflict when something
\* below it is MergeConflict, else Modified when something below it is Modified,
\* whatever else is below it.
C7_ConflictThenModified ==
    \A c \in aggregated :
        LET below == descendant_statuses(items[c].values[1])
        IN /\ "git_mergeconflict" \in below => status_of(c) = {"git_mergeconflict"}
           /\ ("git_modified" \in below /\ "git_mergeconflict" \notin below)
                  => status_of(c) = {"git_modified"}

\* a directory with a Modified and an Untracked path below it is Modified
C7_Witness ==
    \E c \in aggregated :
        /\ descendant_statuses(items[c].values[1]) = {"git_modified", "git_untracked"}
        /\ status_of(c) = {"git_modified"}

\* the rank of a status in the order Added, Modified, MergeConflict, None, Untracked, Ignored
rank(status) ==
    IF status = {"git_added"} THEN 1
    ELSE IF status = {"git_modified"} THEN 2
    ELSE IF status = {"git_mergeconflict"} THEN 3
    ELSE IF status = {} THEN 4
    ELSE IF status = {"git_untracked"} THEN 5
    ELSE 6

\* a child comes before another one, or is equal to it, in the order of the key
in_order(a, b) ==
    \/ rank(status_of(a)) < rank(status_of(b))
    \/ /\ rank(status_of(a)) = rank(status_of(b))
       /\ \/ "dir" \in items[a].tags /\ "dir" \notin items[b].tags
          \/ /\ ("dir" \in items[a].tags) = ("dir" \in items[b].tags)
             /\ \/ items[a].values[1] = items[b].values[1]
                \/ str_lt(str(items[a].values[1]), str(items[b].values[1]))

\* C8: when open_and_refresh_directory has finished on a directory given by
\* path, the children of the directory are in ascending order of status rank
\* (Added, Modified, MergeConflict, None, Untracked, Ignored), then directory
\* before file, then path string.
C8_ChildrenSorted ==
    (last.op = "open_dir" /\ last.ok) =>
        \A i, j \in DOMAIN real_children(last.id) :
            i < j => in_order(real_children(last.id)[i], real_children(last.id)[j])

\* the paths of the tracked projects after the step, in order
project_paths_after == [i \in DOMAIN kids'[0] |-> items'[kids'[0][i]].values[1]]

\* the sequence without the path
others(seq, path) == SelectSeq(seq, LAMBDA q : q # path)

\* C11: when add_project(path) has returned, path is the tracked project at index
\* 0.  If it was tracked already, its node is the one that was there, with the same
\* tags and the same subtree, and the other projects are the same as before, in the
\* same order; otherwise the node at index 0 is a new one, holding a dummy, and no
\* other node has the path.
C11_AddedProjectIsFirst ==
    [][last'.op = "on_new_tab" =>
          /\ project_paths_after # << >>
          /\ project_paths_after[1] = last'.path
          /\ IF last'.path \in Range(project_paths(T))
             THEN /\ others(project_paths_after, last'.path)
                         = others(project_paths(T), last'.path)
                  /\ Len(project_paths_after) = Len(project_paths(T))
                  /\ items'[kids'[0][1]] = items[kids[0][project_index(T, last'.path)]]
                  /\ shown(items', kids', kids'[0][1])
                         = shown(items, kids, kids[0][project_index(T, last'.path)])
                  /\ \A i \in 2..Len(kids'[0]) :
                         shown(items', kids', kids'[0][i])
                             = shown(items, kids,
                                     kids[0][project_index(T, project_paths_after[i])])
             ELSE /\ last'.path \notin Range(Tail(project_paths_after))
                  /\ items'[kids'[0][1]].tags = {"dir", "project"}
                  /\ Len(kids'[kids'[0][1]]) = 1
                  /\ "dummy" \in items'[kids'[kids'[0][1]][1]].tags
      ]_vars

\* add_project has moved a project with an expanded subtree in front of another one
C11_Witness ==
    /\ last.op = "on_new_tab"
    /\ last.hides = << >>
    /\ Len(kids[0]) > 1
    /\ items[kids[0][1]].values[1] = last.path
    /\ real_children(kids[0][1]) # << >>

\* the tracked project paths as the setting 'directory_tree_projects' holds them
persisted_form(paths) == [i \in DOMAIN paths |-> str(paths[i])]

\* C12: when add_project or hide_old_projects has returned, the persisted setting
\* 'directory_tree_projects' is the list of the tracked project paths, in order;
\* also when add_project found the path tracked and only moved it to index 0.
C12_PersistedIsTracked ==
    last.op \in {"on_new_tab", "hide_old_projects"}
        => settings = persisted_form(project_paths(T))

\* C13 as stated: the persisted list never has more than PROJECT_AUTOCLOSE_COUNT
\* entries, whatever projects were added, tabs opened and closed and eviction
\* checks run.
C13_PersistedCapped == Len(settings) <= PROJECT_AUTOCLOSE_COUNT

\* C13: the persisted list has more than PROJECT_AUTOCLOSE_COUNT entries only
\* while every project it lists has an open file tab under it.
C13_PersistedCappedButForDocuments ==
    Len(settings) > PROJECT_AUTOCLOSE_COUNT
        => \A i \in DOMAIN settings : has_document(Path(settings[i]).parts)

\* hide_old_projects has persisted more than PROJECT_AUTOCLOSE_COUNT projects
C13_Witness ==
    /\ last.hides # << >>
    /\ Len(settings) > PROJECT_AUTOCLOSE_COUNT
    /\ settings = persisted_form(project_paths(T))

\* the first n entries of a sequence, all of them if it has fewer
first(seq, n) == SubSeq(seq, 1, IF Len(seq) < n THEN Len(seq) ELSE n)

\* a saved string is the absolute path of a directory that exists
restorable(string) == Path(string).is_absolute /\ is_dir(fs, Path(string).parts)

\* the sequence without the entries that occur earlier in it
RECURSIVE first_occurrences(_)
first_occurrences(seq) ==
    IF seq = << >> THEN << >>
    ELSE LET front == first_occurrences(SubSeq(seq, 1, Len(seq) - 1))
         IN IF seq[Len(seq)] \in Range(front) THEN front ELSE Append(front, seq[Len(seq)])

\* the paths the claim says startup tracks, for the saved list
restored(saved) ==
    LET kept == SelectSeq(first(saved, PROJECT_AUTOCLOSE_COUNT), restorable)
    IN first_occurrences([i \in DOMAIN kept |-> Path(kept[i]).parts])

\* C14: when setup() has restored the persisted list L, the tracked projects are
\* those of the first PROJECT_AUTOCLOSE_COUNT entries of L that are absolute paths
\* of existing directories, each once, in the order they have in L; the other
\* entries are skipped and nothing is raised.  If L is a list of at most
\* PROJECT_AUTOCLOSE_COUNT different existing projects as the program persists
\* them, the tracked list is L and L is what is persisted again.
C14_RestoreTracksTheSaved ==
    last.op = "setup" =>
        /\ last.ok
        /\ project_paths(T) = restored(last.saved)
        /\ settings = persisted_form(project_paths(T))
        /\ (/\ Len(last.saved) <= PROJECT_AUTOCLOSE_COUNT
            /\ \A i \in DOMAIN last.saved :
                   /\ restorable(last.saved[i])
                   /\ last.saved[i] = str(Path(last.saved[i]).parts)
                   /\ \A j \in DOMAIN last.saved : last.saved[j] = last.saved[i] => j = i)
               => /\ persisted_form(project_paths(T)) = last.saved
                  /\ settings = last.saved

\* setup() has restored two projects from a list of more than
\* PROJECT_AUTOCLOSE_COUNT strings, one of the first ones repeated, another one no
\* directory, and one beyond the first PROJECT_AUTOCLOSE_COUNT a directory
C14_Witness ==
    /\ last.op = "setup"
    /\ Len(last.saved) > PROJECT_AUTOCLOSE_COUNT
    /\ \E i \in 1..PROJECT_AUTOCLOSE_COUNT : ~restorable(last.saved[i])
    /\ \E i, j \in 1..PROJECT_AUTOCLOSE_COUNT : i # j /\ last.saved[i] = last.saved[j]
    /\ \E i \in (PROJECT_AUTOCLOSE_COUNT + 1)..Len(last.saved) :
           /\ restorable(last.saved[i])
           /\ Path(last.saved[i]).parts \notin Range(project_paths(T))
    /\ Len(project_paths(T)) = 2

\* C15: a refresh cycle is all or nothing.  Its done_callback either replaces
\* git_statuses by a map that holds a StatusMap for every project of the cycle's
\* snapshot and runs one full reconciliation, to its end, or leaves git_statuses
\* and the tree as they are.
C15_CycleIsAllOrNothing ==
    [][last'.op = "done_callback" =>
          \/ /\ DOMAIN git_statuses' = last'.snapshot
             /\ last'.ok
          \/ UNCHANGED <<git_statuses, items, kids>>]_vars

\* C16: no two tracked project roots have the same path, and the project items
\* are the top-level items: a root nested under another tracked root is a
\* top-level project of its own, and what stands for the same directory inside the
\* outer project's subtree is no project item.
C16_RootsAreDistinct ==
    /\ \A i, j \in DOMAIN kids[0] :
           items[kids[0][i]].values[1] = items[kids[0][j]].values[1] => i = j
    /\ \A item \in DOMAIN items : "project" \in items[item].tags <=> item \in Range(kids[0])

\* add_project was called for the nested /p/e while /p and /p/e both were tracked,
\* and /p is expanded, so that it shows e as a child as well
C16_Witness ==
    /\ last.op = "on_new_tab"
    /\ last.path = E
    /\ last.hides = << >>
    /\ {P, E} \subseteq Range(project_paths(T))
    /\ \E item \in DOMAIN items : items[item].values = <<E>> /\ item \notin Range(kids[0])

\* the status the claim gives a two-column code, "none" if it gives none
status_of_code(code) ==
    IF code[2] = "M" THEN "git_modified"
    ELSE IF code = <<"?", "?">> THEN "git_untracked"
    ELSE IF code = <<"!", "!">> THEN "git_ignored"
    ELSE IF code = <<"A", "A">> \/ code = <<"U", "U">> THEN "git_mergeconflict"
    ELSE IF code[1] # " " /\ code[2] = " " THEN "git_added"
    ELSE "none"

\* the positions of the lines that name the path with a code the claim gives a
\* status
understood(lines, project_root, path) ==
    {i \in DOMAIN lines : /\ project_root \o lines[i].path = path
                          /\ status_of_code(lines[i].code) # "none"}

\* the greatest of a set of numbers
greatest(S) == CHOOSE i \in S : \A j \in S : j <= i

\* C17: when git has printed lines, run_git_status gives the path of a line,
\* joined to the project root, the status of the line's code: Modified for 'M' in
\* the second column, Untracked for '??', Ignored for '!!', MergeConflict for 'AA'
\* and 'UU', Added for a space in the second column after a non-space; the last
\* such line of a path decides.  A line with another code adds no entry, and the
\* lines after it are parsed as well: a path, .git aside, has an entry only if such
\* a line names it.
C17_LinesGiveStatuses ==
    (last.op = "run_git_status" /\ last.outcome.ran) =>
        LET lines == last.outcome.stdout
            project_root == last.project_root
        IN /\ \A i \in DOMAIN lines :
                  LET path == project_root \o lines[i].path
                  IN understood(lines, project_root, path) # {}
                         => /\ path \in DOMAIN last.result
                            /\ last.result[path]
                                   = status_of_code(
                                         lines[greatest(understood(lines, project_root,
                                                                   path))].code)
           /\ \A path \in DOMAIN last.result :
                  \/ path = project_root \o <<".git">>
                  \/ understood(lines, project_root, path) # {}

\* git has printed a line that is not understood and then a line that is
C17_Witness ==
    /\ last.op = "run_git_status"
    /\ last.outcome.ran
    /\ Len(last.outcome.stdout) = 2
    /\ status_of_code(last.outcome.stdout[1].code) = "none"
    /\ last.outcome.stdout[2].code = <<" ", "M">>
    /\ last.result[last.project_root \o last.outcome.stdout[2].path] = "git_modified"

\* C18: in every StatusMap run_git_status returns for a project root, the root's
\* .git is Ignored, whatever git printed and whether or not git could be run.
C18_DotGitIsIgnored ==
    last.op = "run_git_status" =>
        /\ last.project_root \o <<".git">> \in DOMAIN last.result
        /\ last.result[last.project_root \o <<".git">>] = "git_ignored"

\* the step enters with hook.run(), or tries to
enters_run ==
    /\ hook' # hook
    /\ hook'.callbacks = hook.callbacks
    /\ \/ hook'.outcome = "RuntimeError"
       \/ /\ hook'.outcome = "body"
          /\ Len(hook'.stack) = Len(hook.stack) + 1
          /\ hook'.stack[Len(hook'.stack)].kind = "run"

\* C19: with hook.run() entered while the hook is blocked does nothing: no
\* connected callback is called, no error is raised, and the body of the with
\* statement runs, the hook as blocked as before.
C19_BlockedRunDoesNothing ==
    [][(enters_run /\ is_blocked(hook)) =>
          /\ hook'.calls = 0
          /\ hook'.outcome = "body"
          /\ hook'._blocklevel = hook._blocklevel]_vars

\* C20: when open_and_refresh_directory has gone through the children of a
\* directory (the directory has entries on disk and its item holds no dummy),
\* git_statuses holds a StatusMap for the nearest enclosing project root of every
\* child, so that the lookup of line 241 does not fail.
C20_StatusMapIsThere ==
    (/\ last.op = "open_dir"
     /\ iterdir(fs, items[last.id].values[1]) # {}
     /\ \A c \in Range(kids[last.id]) : "dummy" \notin items[c].tags)
        => \A child \in iterdir(fs, items[last.id].values[1]) :
               /\ enclosing(child) # {}
               /\ nearest_root(child) \in DOMAIN git_statuses

\* C26: run_git_status gives Modified to the path of every line that has 'M' in
\* the first or in the second status column, 'M' followed by a space included (no
\* later line naming the same path).
C26_EitherColumnModified ==
    (last.op = "run_git_status" /\ last.outcome.ran) =>
        \A i \in DOMAIN last.outcome.stdout :
            (/\ "M" \in Range(last.outcome.stdout[i].code)
             /\ \A j \in (i + 1)..Len(last.outcome.stdout) :
                    last.outcome.stdout[j].path # last.outcome.stdout[i].path)
                => /\ last.project_root \o last.outcome.stdout[i].path \in DOMAIN last.result
                   /\ last.result[last.project_root \o last.outcome.stdout[i].path]
                          = "git_modified"

\* C21: the results of a refresh cycle are never installed into git_statuses after
\* the results of a cycle that was started later: a cycle that a later one has
\* overtaken installs nothing.
C21_NeverInstalledAfterALaterOne ==
    (last.op = "done_callback" /\ last.installed) => ~last.overtaken

\* C22: when the results of a refresh cycle have been discarded because the
\* tracked projects are no longer those of its snapshot, a cycle with the snapshot
\* of the projects tracked now is in flight, or git_statuses holds the maps of the
\* projects tracked now; that is, every step that changes the set of tracked
\* projects starts a refresh cycle with the new set as its snapshot.
C22_DiscardedCycleHasASuccessor ==
    [][/\ (/\ last'.op = "done_callback"
           /\ last'.success
           /\ last'.snapshot # Range(project_paths_after))
              => \/ \E i \in DOMAIN inflight' : DOMAIN inflight'[i].paths = Range(kids'[0])
                 \/ DOMAIN git_statuses' = Range(project_paths_after)
       /\ Range(project_paths_after) # Range(project_paths(T))
              => /\ inflight' # << >>
                 /\ Range(inflight'[Len(inflight')].paths) = Range(project_paths_after)
      ]_vars

\* C23: of the refresh cycles that were in flight at the same time with different
\* snapshots of the tracked projects, at most one installs its results: a cycle
\* with an installed rival installs nothing.
C23_OneOfDifferingSnapshots ==
    (last.op = "done_callback" /\ last.installed) => ~last.rival

\* the items of a tree that stand for a path: all but the dummies
real_items(its) == {c \in DOMAIN its : "dummy" \notin its[c].tags}

\* the item a child hangs under (0 is the root '')
parent_in(k, c) == CHOOSE p \in DOMAIN k : c \in Range(k[p])

\* the project item a node belongs to
RECURSIVE project_item(_, _)
project_item(k, c) == IF c \in Range(k[0]) THEN c ELSE project_item(k, parent_in(k, c))

\* what a node is, whatever its id: its own path and the path of its project
node(its, k, c) == <<its[project_item(k, c)].values[1], its[c].values[1]>>

\* C24: open_and_refresh_directory keeps the node of every entry that has a node
\* and is still on disk: the node is neither deleted nor inserted anew.  A node is
\* inserted only for an entry on disk that had none, and a completed refresh cycle
\* leaves the order of the project nodes as it was.
C24_ReconciliationKeepsNodes ==
    [][last'.op \in {"open_dir", "done_callback"} =>
          /\ \A c \in real_items(items) :
                 (c \in Range(kids[0]) \/ items[c].values[1] \in fs)
                     => \E c2 \in real_items(items') \ last'.created :
                            node(items', kids', c2) = node(items, kids, c)
          /\ \A c2 \in real_items(items') \cap last'.created :
                 /\ items'[c2].values[1] \in fs
                 /\ \A c \in real_items(items) :
                        node(items, kids, c) # node(items', kids', c2)
          /\ last'.op = "done_callback" => project_paths_after = project_paths(T)
      ]_vars

\* a pass has inserted a node next to one that it kept, below a kept directory
C24_Witness ==
    /\ last.op \in {"open_dir", "done_callback"}
    /\ last.ok
    /\ \E c \in real_items(items) \ last.created, c2 \in real_items(items) \cap last.created :
           /\ c # c2
           /\ c \notin Range(kids[0])
           /\ parent_in(kids, c) = parent_in(kids, c2)
           /\ kids[c] # << >>
           /\ kids[c] \in Seq(real_items(items))

\* a directory item that shows only the placeholder
placeholder_only(its, k, c) ==
    "dir" \in its[c].tags /\ Len(k[c]) = 1 /\ "dummy" \in its[k[c][1]].tags

\* C25: the reconciliation run by a completed refresh cycle leaves every directory
\* node that shows only a placeholder, project nodes included, with that
\* placeholder as its only child: nothing but its git tag may change, and no
\* child is inserted below it.
C25_FullRefreshKeepsPlaceholders ==
    [][last'.op = "done_callback" =>
          \A c \in real_items(items) :
              (/\ placeholder_only(items, kids, c)
               /\ (c \in Range(kids[0]) \/ items[c].values[1] \in fs))
                  => \E c2 \in real_items(items') \ last'.created :
                         /\ node(items', kids', c2) = node(items, kids, c)
                         /\ placeholder_only(items', kids', c2)
                         /\ kids'[c2][1] \notin last'.created
                         /\ items'[c2].tags \ GitTags = items[c].tags \ GitTags
      ]_vars

\* a completed cycle has gone through the children of a directory and left alone
\* one of them, a directory that showed only its placeholder before
C25_Witness ==
    /\ last.op = "done_callback"
    /\ last.ok
    /\ last.installed
    /\ \E c \in real_items(items) \ (Range(kids[0]) \cup last.created) :
           /\ placeholder_only(items, kids, c)
           /\ kids[c][1] \notin last.created
           /\ Len(kids[parent_in(kids, c)]) > 1
====
